---------------------------- MODULE Spec2Model ----------------------------
(***************************************************************************)
(* Model of port1632.h, the Win16/Win32 compatibility shim of WinMine.     *)
(*                                                                         *)
(* The header is modelled at two levels:                                   *)
(*   - translation time: the preprocessor's macro table, the functions     *)
(*     defined so far in the translation unit and the diagnostics issued,  *)
(*     changed by the directives of the header and of other headers;       *)
(*   - run time: what the text the header produces does when it runs       *)
(*     (the max/min expansions, the hmemcpy/hmemset aliases, MMoveTo).     *)
(* <windows.h> and <string.h> are external: they supply the types and the  *)
(* primitives (MoveToEx, LineTo, memcpy, memset) that are modelled here    *)
(* by their documented contracts.                                          *)
(***************************************************************************)
EXTENDS Integers, Sequences, FiniteSets, TLC

VARIABLES
    \* ---- translation unit (preprocessor) ----
    macros,     \* macro table: name -> [by, params, body]
    funcs,      \* functions with a body in the translation unit: name -> by
    diag,       \* diagnostics (errors) the compiler has issued
    once,       \* TRUE when port1632.h is registered by #pragma once
    nIncl,      \* number of #include "port1632.h" directives seen
    last,       \* the last directive: [op, pre]
    target,     \* the build target of the compilation
    \* ---- use of MMain ----
    expansion,  \* [args, text] of the last MMain(...) use
    \* ---- hmemcpy / hmemset ----
    mem,        \* the bytes of memory, address -> byte
    lastCall,   \* [name, args, ret, before] of the last alias call
    \* ---- MMoveTo ----
    dcPos,      \* current position of each valid device context
    gdiOp,      \* the last GDI operation and the one before it
    \* ---- max / min ----
    env,        \* the variables the argument expressions read and write
    ev          \* the evaluation in progress of one macro use

tuVars  == <<macros, funcs, diag, once, nIncl, last, target>>
expVars == <<expansion>>
memVars == <<mem, lastCall>>
gdiVars == <<dcPos, gdiOp>>
macVars == <<env, ev>>
vars    == <<macros, funcs, diag, once, nIncl, last, target, expansion,
             mem, lastCall, dcPos, gdiOp, env, ev>>

----------------------------------------------------------------------------
(* Bounds of the model. *)

MaxIncludes == 2

MemSize == 4

----------------------------------------------------------------------------
(* The text of the header: the names it defines and their replacement      *)
(* lists, token by token.                                                  *)

GuardName == "PORT1632_STUB_H"

\* The names the header defines under #ifndef, in file order.
GuardedNames == <<"MMain", "hmemcpy", "hmemset", "EXPENTRY", "WINAPI16", "max", "min">>

ShimMacroNames == {GuardedNames[i] : i \in 1..Len(GuardedNames)}

MacroNames == ShimMacroNames \cup {GuardName}

FuncName == "MMoveTo"

AllNames == MacroNames \cup {FuncName}

MMainParams == <<"hInstance", "hPrevInstance", "lpCmdLine", "nCmdShow">>

\* (mutant) the two instance handles in the wrong order.
MMainBodySwapped ==
    <<"int", "APIENTRY", "WinMain", "(",
      "HINSTANCE", "hPrevInstance", ",", "HINSTANCE", "hInstance", ",",
      "LPSTR", "lpCmdLine", ",", "int", "nCmdShow", ")", "{">>

MMainBody ==
    <<"int", "APIENTRY", "WinMain", "(",
      "HINSTANCE", "hInstance", ",", "HINSTANCE", "hPrevInstance", ",",
      "LPSTR", "lpCmdLine", ",", "int", "nCmdShow", ")", "{">>

\* (mutant) the copy alias bound to the fill primitive.
HmemcpyBodyWrong == <<"memset">>

HmemcpyBody == <<"memcpy">>

\* (mutant) the fill alias bound to the copy primitive.
HmemsetBodyWrong == <<"memcpy">>

HmemsetBody == <<"memset">>

ExpentryBody == <<"WINAPI">>

Winapi16Body == <<"CALLBACK">>

MinMaxParams == <<"a", "b">>

\* (mutant) max with the comparison of min.
MaxBodyLess ==
    <<"(", "(", "(", "a", ")", "<", "(", "b", ")", ")", "?",
      "(", "a", ")", ":", "(", "b", ")", ")">>

\* (mutant) max with the two branches exchanged.
MaxBodyBranches ==
    <<"(", "(", "(", "a", ")", ">", "(", "b", ")", ")", "?",
      "(", "b", ")", ":", "(", "a", ")", ")">>

MaxBody ==
    <<"(", "(", "(", "a", ")", ">", "(", "b", ")", ")", "?",
      "(", "a", ")", ":", "(", "b", ")", ")">>

MinBody ==
    <<"(", "(", "(", "a", ")", "<", "(", "b", ")", ")", "?",
      "(", "a", ")", ":", "(", "b", ")", ")">>

\* The definition the header gives to macro n.
ShimDef(n) ==
    CASE n = GuardName  -> [by |-> "shim", params |-> <<>>, body |-> <<>>]
      [] n = "MMain"    -> [by |-> "shim", params |-> MMainParams, body |-> MMainBody]
      [] n = "hmemcpy"  -> [by |-> "shim", params |-> <<>>, body |-> HmemcpyBody]
      [] n = "hmemset"  -> [by |-> "shim", params |-> <<>>, body |-> HmemsetBody]
      [] n = "EXPENTRY" -> [by |-> "shim", params |-> <<>>, body |-> ExpentryBody]
      [] n = "WINAPI16" -> [by |-> "shim", params |-> <<>>, body |-> Winapi16Body]
      [] n = "max"      -> [by |-> "shim", params |-> MinMaxParams, body |-> MaxBody]
      [] n = "min"      -> [by |-> "shim", params |-> MinMaxParams, body |-> MinBody]

\* A definition of n made by some other header of the translation unit.
OtherDef(n) == [by |-> "other", params |-> <<>>, body |-> <<"__other">>]

----------------------------------------------------------------------------
(* The preprocessor and the compiler's symbol table.  A translation-unit   *)
(* state is a record [macros, funcs, diag, once].                          *)

EmptyTable == [n \in {} |-> 0]

Bind(t, k, d) == [n \in (DOMAIN t) \cup {k} |-> IF n = k THEN d ELSE t[n]]

Unbind(t, k) == [n \in (DOMAIN t) \ {k} |-> t[n]]

Targets == {"win32", "win16"}

\* (mutant) the #define without its #ifndef: a later definition replaces
\* the earlier one.
DefineUnguarded(st, n) ==
    [st EXCEPT !.macros = Bind(st.macros, n, ShimDef(n))]

\* #ifndef n / #define n ... / #endif
IfndefDefine(st, n) ==
    IF n \in DOMAIN st.macros
    THEN st
    ELSE [st EXCEPT !.macros = Bind(st.macros, n, ShimDef(n))]

RECURSIVE IfndefDefineAll(_, _)
IfndefDefineAll(st, i) ==
    IF i > Len(GuardedNames)
    THEN st
    ELSE IfndefDefineAll(IfndefDefine(st, GuardedNames[i]), i + 1)

\* __inline int MMoveTo(HDC hdc, int x, int y) { ... }: a function
\* definition, not under any #ifndef of its own.  A second body for the
\* same name is a redefinition error; the first body stays.
DefineMMoveTo(st) ==
    IF FuncName \in DOMAIN st.funcs
    THEN [st EXCEPT !.diag = st.diag \cup {"redefinition"}]
    ELSE [st EXCEPT !.funcs = Bind(st.funcs, FuncName, "shim")]

\* (mutant) a header with neither #pragma once nor an include guard.
NeverSkipped(st) == FALSE

\* #pragma once and #ifndef PORT1632_STUB_H: is the rest of the file skipped?
Skipped(st) == st.once \/ GuardName \in DOMAIN st.macros

\* (mutant) the body of the header under an #ifdef of the modern target.
HeaderBodyModernOnly(st) ==
    IF target = "win32"
    THEN DefineMMoveTo(IfndefDefineAll(IfndefDefine(st, GuardName), 1))
    ELSE IfndefDefine(st, GuardName)

\* The part of the header between the include guard and its #endif: the
\* guard's #define, the seven guarded macros, MMoveTo.  No directive of it
\* tests the build target.
HeaderBody(st) ==
    DefineMMoveTo(IfndefDefineAll(IfndefDefine(st, GuardName), 1))

\* #include "port1632.h"
IncludeShim(st) ==
    IF Skipped(st)
    THEN [st EXCEPT !.once = TRUE]
    ELSE HeaderBody([st EXCEPT !.once = TRUE])

TUState == [macros |-> macros, funcs |-> funcs, diag |-> diag, once |-> once]

Defined == (DOMAIN macros) \cup (DOMAIN funcs)

NoDirective == [op |-> "none", pre |-> {}]

OtherDirective == [op |-> "other", pre |-> {}]

\* Another header defines macro n before or after the shim is included.
OtherDefine(n) ==
    /\ n \notin DOMAIN macros
    /\ macros' = Bind(macros, n, OtherDef(n))
    /\ last' = OtherDirective
    /\ UNCHANGED <<funcs, diag, once, nIncl, target>>

\* #undef n
Undef(n) ==
    /\ n \in DOMAIN macros
    /\ macros' = Unbind(macros, n)
    /\ last' = OtherDirective
    /\ UNCHANGED <<funcs, diag, once, nIncl, target>>

\* Another header gives MMoveTo a body.
OtherDefineFunc ==
    /\ FuncName \notin DOMAIN funcs
    /\ funcs' = Bind(funcs, FuncName, "other")
    /\ last' = OtherDirective
    /\ UNCHANGED <<macros, diag, once, nIncl, target>>

\* #include "port1632.h"
Include ==
    /\ nIncl < MaxIncludes
    /\ LET r == IncludeShim(TUState)
       IN  /\ macros' = r.macros
           /\ funcs' = r.funcs
           /\ diag' = r.diag
           /\ once' = r.once
    /\ nIncl' = nIncl + 1
    /\ last' = [op |-> "include", pre |-> Defined]
    /\ UNCHANGED target

InitTUFixed ==
    /\ macros = EmptyTable
    /\ funcs = EmptyTable
    /\ diag = {}
    /\ once = FALSE
    /\ nIncl = 0
    /\ last = NoDirective
    /\ target = "win32"

InitExp == expansion = [args |-> <<>>, text |-> <<>>]

NoCall == [name |-> "none", args |-> <<>>, ret |-> 0]

InitMemFixed ==
    /\ mem = <<>>
    /\ lastCall = NoCall

NoOp ==
    [kind |-> "none", hdc |-> "", x |-> 0, y |-> 0, ret |-> 0,
     calls |-> <<>>, from |-> <<>>, after |-> <<>>]

InitGdiFixed ==
    /\ dcPos = <<>>
    /\ gdiOp = NoOp

NoEval ==
    [pc |-> "idle", op |-> "", a |-> <<>>, b |-> <<>>, text |-> <<>>,
     lhs |-> <<>>, rhs |-> <<>>, log |-> <<>>, result |-> <<>>]

InitMacFixed ==
    /\ env = <<>>
    /\ ev = NoEval

InitTU ==
    /\ macros = EmptyTable
    /\ funcs = EmptyTable
    /\ diag = {}
    /\ once = FALSE
    /\ nIncl = 0
    /\ last = NoDirective
    /\ target \in Targets
    /\ InitExp /\ InitMemFixed /\ InitGdiFixed /\ InitMacFixed

NextTU ==
    \/ \E n \in MacroNames : OtherDefine(n) /\ UNCHANGED <<expVars, memVars, gdiVars, macVars>>
    \/ \E n \in MacroNames : Undef(n) /\ UNCHANGED <<expVars, memVars, gdiVars, macVars>>
    \/ OtherDefineFunc /\ UNCHANGED <<expVars, memVars, gdiVars, macVars>>
    \/ Include /\ UNCHANGED <<expVars, memVars, gdiVars, macVars>>

SpecTU == InitTU /\ [][NextTU]_vars

\* A step that is an #include "port1632.h".
IncludeStep == nIncl' = nIncl + 1

\* C3 (as claimed): every name the header defines, MMoveTo included, is
\* guarded: a name defined before an inclusion keeps its definition, and
\* the inclusion redefines nothing.
C3_EveryNameGuarded ==
    [][IncludeStep =>
         /\ \A n \in MacroNames \cap DOMAIN macros :
               n \in DOMAIN macros' /\ macros'[n] = macros[n]
         /\ FuncName \in DOMAIN funcs =>
               /\ FuncName \in DOMAIN funcs'
               /\ funcs'[FuncName] = funcs[FuncName]
               /\ diag' = diag]_vars

\* C3 (amended): every macro of the header is guarded by #ifndef, so a macro
\* defined before an inclusion keeps its definition; MMoveTo is a function
\* without a guard of its own, and when it already has a body the header's
\* body for it is a redefinition error.
C3_MacrosGuarded ==
    [][IncludeStep =>
         /\ \A n \in MacroNames \cap DOMAIN macros :
               n \in DOMAIN macros' /\ macros'[n] = macros[n]
         /\ (FuncName \in DOMAIN funcs /\ ~Skipped(TUState)) =>
               "redefinition" \in diag']_vars

\* An inclusion has just been processed with max and MMoveTo defined before
\* it and min not.
C3_Witness ==
    /\ last.op = "include"
    /\ "max" \in last.pre /\ "min" \notin last.pre /\ FuncName \in last.pre
    /\ macros["max"] = OtherDef("max")
    /\ macros["min"] = ShimDef("min")
    /\ funcs[FuncName] = "other"
    /\ "redefinition" \in diag

\* C4: an inclusion that follows another one changes no definition and
\* issues no diagnostic, the body of MMoveTo included.
C4_InclusionIdempotent ==
    [][(IncludeStep /\ nIncl >= 1) =>
         macros' = macros /\ funcs' = funcs /\ diag' = diag]_vars

\* The header has been included twice, the first time defining MMoveTo.
C4_Witness ==
    /\ nIncl >= 2
    /\ last.op = "include"
    /\ FuncName \in DOMAIN funcs /\ funcs[FuncName] = "shim"
    /\ \A n \in MacroNames : n \in DOMAIN macros /\ macros[n] = ShimDef(n)
    /\ diag = {}

\* C5 (as claimed): under a build target other than the modern one, an
\* inclusion introduces none of the header's definitions.
C5_NothingUnderLegacyTarget ==
    (target # "win32" /\ nIncl >= 1) =>
        /\ \A n \in ShimMacroNames \cap DOMAIN macros : macros[n].by # "shim"
        /\ FuncName \in DOMAIN funcs => funcs[FuncName] # "shim"

\* C5 (amended): the header tests no build target; whenever its body is
\* processed, under either target, every guarded macro not yet defined
\* gets the header's definition and MMoveTo, if it has no body yet, gets
\* the header's body.
C5_DefinedUnderEveryTarget ==
    [][(IncludeStep /\ ~Skipped(TUState)) =>
         /\ \A n \in ShimMacroNames \ DOMAIN macros :
               n \in DOMAIN macros' /\ macros'[n] = ShimDef(n)
         /\ FuncName \notin DOMAIN funcs =>
               FuncName \in DOMAIN funcs' /\ funcs'[FuncName] = "shim"]_vars

\* Under the legacy target an inclusion has just introduced every definition.
C5_Witness ==
    /\ target = "win16"
    /\ last.op = "include" /\ last.pre = {}
    /\ \A n \in ShimMacroNames : n \in DOMAIN macros /\ macros[n] = ShimDef(n)
    /\ FuncName \in DOMAIN funcs /\ funcs[FuncName] = "shim"

----------------------------------------------------------------------------
(* Use of a macro of the table in the text of the application.             *)

\* The translation unit right after a first #include "port1632.h" before
\* which other headers had defined the macros of pre.
TUAfterInclude(pre) ==
    IncludeShim([macros |-> [n \in pre |-> OtherDef(n)], funcs |-> EmptyTable,
                 diag |-> {}, once |-> FALSE])

InitIncluded(pre) ==
    /\ macros = TUAfterInclude(pre).macros
    /\ funcs = TUAfterInclude(pre).funcs
    /\ diag = TUAfterInclude(pre).diag
    /\ once = TUAfterInclude(pre).once
    /\ nIncl = 1
    /\ last = [op |-> "include", pre |-> pre]
    /\ target = "win32"

Index(seq, x) ==
    IF \E i \in 1..Len(seq) : seq[i] = x
    THEN CHOOSE i \in 1..Len(seq) : seq[i] = x
    ELSE 0

\* Replacement of a function-like macro: every token of the replacement
\* list that is a parameter becomes the matching argument, all at once.
Subst(body, params, args) ==
    [k \in 1..Len(body) |->
        IF Index(params, body[k]) # 0 THEN args[Index(params, body[k])] ELSE body[k]]

\* The identifiers the application may pass to MMain: the parameter names
\* of the macro itself, in any order, and other identifiers.
ArgNames == {"hInstance", "hPrevInstance", "lpCmdLine", "nCmdShow", "hInst"}

\* MMain(a1, a2, a3, a4) in the application's text, which defines the
\* entry point and so occurs once.
UseMMain(args) ==
    /\ expansion.args = <<>>
    /\ "MMain" \in DOMAIN macros
    /\ Len(macros["MMain"].params) = Len(args)
    /\ expansion' = [args |-> args,
                     text |-> Subst(macros["MMain"].body, macros["MMain"].params, args)]

InitMMain ==
    /\ \E pre \in SUBSET {"MMain"} : InitIncluded(pre)
    /\ InitExp /\ InitMemFixed /\ InitGdiFixed /\ InitMacFixed

NextMMain ==
    \E a1 \in ArgNames, a2 \in ArgNames, a3 \in ArgNames, a4 \in ArgNames :
        UseMMain(<<a1, a2, a3, a4>>) /\ UNCHANGED <<tuVars, memVars, gdiVars, macVars>>

SpecMMain == InitMMain /\ [][NextMMain]_vars

Count(seq, x) == Cardinality({k \in 1..Len(seq) : seq[k] = x})

RECURSIVE BraceDepth(_, _, _)
\* The nesting depth after the tokens from k on, starting at depth d;
\* -1 when a closing brace has no opening one.
BraceDepth(seq, k, d) ==
    IF d < 0 THEN -1
    ELSE IF k > Len(seq) THEN d
    ELSE BraceDepth(seq, k + 1,
                    CASE seq[k] = "{" -> d + 1 [] seq[k] = "}" -> d - 1 [] OTHER -> d)

\* C6: MMain(p1, p2, p3, p4) expands to the header of WinMain, of return
\* type int and parameters (HINSTANCE p1, HINSTANCE p2, LPSTR p3, int p4) in
\* this order, then one opening brace and no closing one; with one closing
\* brace appended the braces balance.
C6_MMainExpansion ==
    (expansion.args # <<>>) =>
        LET a == expansion.args
            t == expansion.text
            lp == Index(t, "(")
            rp == Index(t, ")")
        IN  /\ lp > 1 /\ rp > lp
            /\ t[1] = "int"
            /\ t[lp - 1] = "WinMain"
            /\ SubSeq(t, lp + 1, rp - 1) =
                 <<"HINSTANCE", a[1], ",", "HINSTANCE", a[2], ",",
                   "LPSTR", a[3], ",", "int", a[4]>>
            /\ SubSeq(t, rp + 1, Len(t)) = <<"{">>
            /\ Count(t, "{") = 1 /\ Count(t, "}") = 0
            /\ BraceDepth(t, 1, 0) = 1
            /\ BraceDepth(Append(t, "}"), 1, 0) = 0

\* MMain has been used with the macro's own parameter names in another
\* order.
C6_Witness ==
    /\ expansion.args = <<"nCmdShow", "lpCmdLine", "hInst", "hInstance">>
    /\ Len(expansion.text) = Len(MMainBody)

----------------------------------------------------------------------------
(* hmemcpy and hmemset: object-like macros, so a call hmemcpy(d, s, n) is  *)
(* the call of whatever the macro table makes of the name, with the same   *)
(* arguments.  memcpy and memset are the C runtime's.                      *)

Addrs == 0..(MemSize - 1)

InRange(p, n) == p >= 0 /\ n >= 0 /\ p + n <= MemSize

Overlap(d, s, n) == n > 0 /\ d < s + n /\ s < d + n

\* Conversion of an int to unsigned char.
ToUChar(c) == c % 256

RECURSIVE ForwardCopy(_, _, _, _, _)
\* Bytes copied one at a time from the lowest address, from the k-th on.
ForwardCopy(m, d, s, n, k) ==
    IF k >= n THEN m
    ELSE ForwardCopy([m EXCEPT ![d + k] = m[s + k]], d, s, n, k + 1)

\* Bytes copied as if through a temporary buffer.
BufferedCopy(m, d, s, n) ==
    [a \in DOMAIN m |-> IF a >= d /\ a < d + n THEN m[s + a - d] ELSE m[a]]

\* An access outside every object.
Fault(m) == {[mem |-> m, ret |-> -1]}

\* memcpy(d, s, n): the outcomes the C runtime may produce.  With
\* overlapping buffers the behaviour is undefined: the copy may run in
\* either direction.
Memcpy(m, d, s, n) ==
    IF ~(InRange(d, n) /\ InRange(s, n)) THEN Fault(m)
    ELSE IF Overlap(d, s, n)
         THEN {[mem |-> ForwardCopy(m, d, s, n, 0), ret |-> d],
               [mem |-> BufferedCopy(m, d, s, n), ret |-> d]}
         ELSE {[mem |-> BufferedCopy(m, d, s, n), ret |-> d]}

\* memset(d, c, n)
Memset(m, d, c, n) ==
    IF ~InRange(d, n) THEN Fault(m)
    ELSE {[mem |-> [a \in DOMAIN m |-> IF a >= d /\ a < d + n THEN ToUChar(c) ELSE m[a]],
           ret |-> d]}

\* What a name of the application's text is after macro replacement.
Resolve(name) ==
    IF name \in DOMAIN macros /\ macros[name].params = <<>> /\ Len(macros[name].body) = 1
    THEN macros[name].body[1]
    ELSE name

\* The outcomes of calling function f of the C runtime.
CRT(f, m, args) ==
    CASE f = "memcpy" -> Memcpy(m, args[1], args[2], args[3])
      [] f = "memset" -> Memset(m, args[1], args[2], args[3])
      [] OTHER -> {}

\* The values the application passes as fill value.
Fills == {0, 1, 257}

\* hmemcpy(d, s, n) with buffers inside memory
CallHmemcpy(d, s, n) ==
    /\ InRange(d, n) /\ InRange(s, n)
    /\ \E r \in CRT(Resolve("hmemcpy"), mem, <<d, s, n>>) :
          /\ mem' = r.mem
          /\ lastCall' = [name |-> "hmemcpy", args |-> <<d, s, n>>, ret |-> r.ret]

\* hmemset(d, c, n) with the buffer inside memory
CallHmemset(d, c, n) ==
    /\ InRange(d, n)
    /\ \E r \in CRT(Resolve("hmemset"), mem, <<d, c, n>>) :
          /\ mem' = r.mem
          /\ lastCall' = [name |-> "hmemset", args |-> <<d, c, n>>, ret |-> r.ret]

InitMem ==
    /\ \E pre \in SUBSET {"hmemcpy", "hmemset"} : InitIncluded(pre)
    /\ mem = [a \in Addrs |-> a % 2]
    /\ lastCall = NoCall
    /\ InitExp /\ InitGdiFixed /\ InitMacFixed

NextMem ==
    \/ \E d \in Addrs, s \in Addrs, n \in 0..MemSize :
          CallHmemcpy(d, s, n) /\ UNCHANGED <<tuVars, expVars, gdiVars, macVars>>
    \/ \E d \in Addrs, c \in Fills, n \in 0..MemSize :
          CallHmemset(d, c, n) /\ UNCHANGED <<tuVars, expVars, gdiVars, macVars>>

SpecMem == InitMem /\ [][NextMem]_vars

\* C7: hmemcpy(d, s, n) on non-overlapping buffers does what memcpy(d, s, n)
\* does: the n bytes at d become those at s, every other byte stays, and the
\* value returned is d.
C7_HmemcpyIsMemcpy ==
    [][(lastCall'.name = "hmemcpy"
          /\ ~Overlap(lastCall'.args[1], lastCall'.args[2], lastCall'.args[3])) =>
         LET d == lastCall'.args[1]
             s == lastCall'.args[2]
             n == lastCall'.args[3]
         IN  /\ \A k \in 0..(n - 1) : mem'[d + k] = mem[s + k]
             /\ \A a \in Addrs : (a < d \/ a >= d + n) => mem'[a] = mem[a]
             /\ lastCall'.ret = d
             /\ [mem |-> mem', ret |-> lastCall'.ret] \in Memcpy(mem, d, s, n)]_vars

\* hmemcpy has copied the two bytes 1, 1 at address 0 to address 2, where
\* the first byte was 0 at the start.
C7_Witness ==
    /\ lastCall = [name |-> "hmemcpy", args |-> <<2, 0, 2>>, ret |-> 2]
    /\ mem[0] = 1 /\ mem[1] = 1 /\ mem[2] = 1 /\ mem[3] = 1

\* C8: hmemset(d, c, n) leaves each of the n bytes at d equal to the fill
\* byte, that is c as an unsigned char (c itself when c is a byte value),
\* and returns d.
C8_HmemsetFills ==
    [][lastCall'.name = "hmemset" =>
         LET d == lastCall'.args[1]
             c == lastCall'.args[2]
             n == lastCall'.args[3]
         IN  /\ \A k \in 0..(n - 1) :
                   /\ mem'[d + k] = c % 256
                   /\ (c \in 0..255) => mem'[d + k] = c
             /\ lastCall'.ret = d]_vars

\* hmemset has filled the three bytes 1, 0, 1 at address 1 with 1.
C8_Witness ==
    /\ lastCall = [name |-> "hmemset", args |-> <<1, 1, 3>>, ret |-> 1]
    /\ mem[0] = 0 /\ mem[1] = 1 /\ mem[2] = 1 /\ mem[3] = 1

----------------------------------------------------------------------------
(* MMoveTo and the GDI primitives it and its callers use.                  *)

\* Handles that designate a device context, and one that does not.
ValidDCs == {"hdcA", "hdcB"}

Handles == ValidDCs \cup {"hdcNone"}

Coords == {-1, 2}

\* What MoveToEx may return: zero on failure, nonzero on success.
PrimResults == {0, 1, 2}

\* MoveToEx(hdc, x, y, &pt) when the system lets it end with result r: on
\* success the current position of hdc becomes (x, y) and the previous one
\* is stored in pt; on failure, and for a handle that is no device context,
\* nothing changes and the result is zero.
MoveToEx(pos, hdc, x, y, r) ==
    IF hdc \in ValidDCs /\ r # 0
    THEN [pos |-> [pos EXCEPT ![hdc] = <<x, y>>], ret |-> r, pt |-> pos[hdc]]
    ELSE [pos |-> pos, ret |-> 0, pt |-> <<>>]

\* (mutant) x and y passed in the wrong order.
MMoveToSwapped(pos, hdc, x, y, r) ==
    LET m == MoveToEx(pos, hdc, y, x, r)
    IN  [pos |-> m.pos, ret |-> m.ret,
         calls |-> <<[hdc |-> hdc, x |-> x, y |-> y, ret |-> m.ret]>>]

\* (mutant) a failed MoveToEx is tried once more and the result is made 0/1.
MMoveToRetry(pos, hdc, x, y, r) ==
    LET m1 == MoveToEx(pos, hdc, x, y, r)
        m2 == MoveToEx(m1.pos, hdc, x, y, r)
        c1 == [hdc |-> hdc, x |-> x, y |-> y, ret |-> m1.ret]
        c2 == [hdc |-> hdc, x |-> x, y |-> y, ret |-> m2.ret]
    IN  IF m1.ret # 0
        THEN [pos |-> m1.pos, ret |-> 1, calls |-> <<c1>>]
        ELSE [pos |-> m2.pos, ret |-> IF m2.ret # 0 THEN 1 ELSE 0, calls |-> <<c1, c2>>]

\* int MMoveTo(HDC hdc, int x, int y): POINT pt; return MoveToEx(hdc, x, y, &pt);
\* calls lists the invocations of MoveToEx made, pt is dropped.
MMoveTo(pos, hdc, x, y, r) ==
    LET m == MoveToEx(pos, hdc, x, y, r)
    IN  [pos |-> m.pos, ret |-> m.ret,
         calls |-> <<[hdc |-> hdc, x |-> x, y |-> y, ret |-> m.ret]>>]

\* The application calls MMoveTo(hdc, x, y).
CallMMoveTo(hdc, x, y, r) ==
    LET m == MMoveTo(dcPos, hdc, x, y, r)
    IN  /\ dcPos' = m.pos
        /\ gdiOp' = [kind |-> "moveto", hdc |-> hdc, x |-> x, y |-> y, ret |-> m.ret,
                     calls |-> m.calls, from |-> <<>>, after |-> <<>>]

\* The application draws a line with LineTo(hdc, x, y): from the current
\* position to (x, y), which becomes the current position.
CallLineTo(hdc, x, y) ==
    /\ hdc \in ValidDCs
    /\ dcPos' = [dcPos EXCEPT ![hdc] = <<x, y>>]
    /\ gdiOp' = [kind |-> "lineto", hdc |-> hdc, x |-> x, y |-> y, ret |-> 1,
                 calls |-> <<>>, from |-> dcPos[hdc],
                 after |-> IF gdiOp.kind = "moveto" /\ gdiOp.hdc = hdc
                           THEN <<gdiOp.x, gdiOp.y, gdiOp.ret>>
                           ELSE <<>>]

InitGdi ==
    /\ InitIncluded({})
    /\ dcPos = [h \in ValidDCs |-> <<0, 0>>]
    /\ gdiOp = NoOp
    /\ InitExp /\ InitMemFixed /\ InitMacFixed

NextGdi ==
    \/ \E hdc \in Handles, x \in Coords, y \in Coords, r \in PrimResults :
          CallMMoveTo(hdc, x, y, r) /\ UNCHANGED <<tuVars, expVars, memVars, macVars>>
    \/ \E hdc \in Handles, x \in Coords, y \in Coords :
          CallLineTo(hdc, x, y) /\ UNCHANGED <<tuVars, expVars, memVars, macVars>>

SpecGdi == InitGdi /\ [][NextGdi]_vars

\* C1 (as claimed): every call MMoveTo(hdc, x, y) on a device context
\* leaves its current position at (x, y) and returns the result of
\* MoveToEx, and a line drawn right after the call starts at (x, y).
C1_AlwaysMoves ==
    /\ (gdiOp.kind = "moveto" /\ gdiOp.hdc \in ValidDCs) =>
          /\ dcPos[gdiOp.hdc] = <<gdiOp.x, gdiOp.y>>
          /\ gdiOp.ret = gdiOp.calls[1].ret
    /\ (gdiOp.kind = "lineto" /\ gdiOp.after # <<>>) =>
          gdiOp.from = <<gdiOp.after[1], gdiOp.after[2]>>

\* C1 (amended): MMoveTo(hdc, x, y) returns the result of MoveToEx, and
\* when that result is nonzero the current position of hdc is (x, y), so a
\* line drawn right after a successful call starts at (x, y).
C1_MovesOnSuccess ==
    /\ gdiOp.kind = "moveto" =>
          /\ gdiOp.ret = gdiOp.calls[1].ret
          /\ gdiOp.ret # 0 =>
                gdiOp.hdc \in ValidDCs /\ dcPos[gdiOp.hdc] = <<gdiOp.x, gdiOp.y>>
    /\ (gdiOp.kind = "lineto" /\ gdiOp.after # <<>> /\ gdiOp.after[3] # 0) =>
          gdiOp.from = <<gdiOp.after[1], gdiOp.after[2]>>

\* A line has been drawn right after a successful MMoveTo(hdcA, 2, -1).
C1_Witness ==
    /\ gdiOp.kind = "lineto" /\ gdiOp.hdc = "hdcA"
    /\ gdiOp.after = <<2, -1, 1>>
    /\ gdiOp.from = <<2, -1>>

\* C9: a call of MMoveTo invokes MoveToEx once, with its own arguments, and
\* returns what that invocation returned, zero included.
C9_ForwardsResult ==
    gdiOp.kind = "moveto" =>
        /\ Len(gdiOp.calls) = 1
        /\ gdiOp.calls[1].hdc = gdiOp.hdc
        /\ gdiOp.calls[1].x = gdiOp.x /\ gdiOp.calls[1].y = gdiOp.y
        /\ gdiOp.ret = gdiOp.calls[1].ret
        /\ gdiOp.calls[1].ret = 0 => gdiOp.ret = 0

\* MMoveTo has returned the zero of a MoveToEx that failed on a device
\* context, whose position stayed (0, 0).
C9_Witness ==
    /\ gdiOp.kind = "moveto" /\ gdiOp.hdc = "hdcB"
    /\ gdiOp.ret = 0 /\ Len(gdiOp.calls) = 1 /\ gdiOp.calls[1].ret = 0
    /\ dcPos["hdcB"] = <<0, 0>>

----------------------------------------------------------------------------
(* max(a,b) and min(a,b): the replacement list is evaluated as C evaluates *)
(* it.  The operands of > and < are evaluated in either order, the         *)
(* condition of ?: is sequenced before the branch it selects.              *)

\* The values of the int variables and constants of the argument
\* expressions.
Vals == {-1, 0, 1}

Const(c) == [kind |-> "const", v |-> c]

\* The argument expressions: constants, a variable, and a variable with a
\* side effect (x++ and ++x).
ExprsOver(x) ==
    {Const(c) : c \in Vals} \cup
    {[kind |-> k, v |-> x] : k \in {"var", "postinc", "preinc"}}

Pure(e) == e.kind \in {"const", "var"}

\* One evaluation of expression e in environment en.
Eval(e, en) ==
    CASE e.kind = "const"   -> [val |-> e.v, env |-> en]
      [] e.kind = "var"     -> [val |-> en[e.v], env |-> en]
      [] e.kind = "postinc" -> [val |-> en[e.v], env |-> [en EXCEPT ![e.v] = @ + 1]]
      [] e.kind = "preinc"  -> [val |-> en[e.v] + 1, env |-> [en EXCEPT ![e.v] = @ + 1]]

\* Places of the replacement list ( ( ( X ) c ( Y ) ) ? ( T ) : ( E ) ).
PosLhs == 4

PosCmp == 6

PosRhs == 8

PosThen == 13

PosElse == 17

Compare(tok, x, y) ==
    CASE tok = ">" -> x > y
      [] tok = "<" -> x < y

\* The argument expression a token of the expanded text stands for.
ArgOf(tok) == IF tok = "$1" THEN ev.a ELSE ev.b

\* The application reaches a use op(a, b) with the variables holding i0
\* and j0 (one use is followed; every use starts like this one).
\* a reads and writes i only and b reads and writes j only, so that the
\* unsequenced operands of the comparison do not touch the same object.
StartUse(op, a, b, i0, j0) ==
    /\ ev.pc = "idle"
    /\ op \in DOMAIN macros
    /\ Len(macros[op].params) = 2
    /\ env' = [i |-> i0, j |-> j0]
    /\ ev' = [pc |-> "cmp", op |-> op, a |-> a, b |-> b,
              text |-> Subst(macros[op].body, macros[op].params, <<"$1", "$2">>),
              lhs |-> <<>>, rhs |-> <<>>, log |-> <<>>, result |-> <<>>]

\* The left operand of the comparison is evaluated.
EvalLhs ==
    /\ ev.pc = "cmp" /\ ev.lhs = <<>>
    /\ LET tok == ev.text[PosLhs]
           r == Eval(ArgOf(tok), env)
       IN  /\ env' = r.env
           /\ ev' = [ev EXCEPT !.lhs = <<r.val>>,
                               !.log = Append(@, [arg |-> tok, val |-> r.val])]

\* The right operand of the comparison is evaluated.
EvalRhs ==
    /\ ev.pc = "cmp" /\ ev.rhs = <<>>
    /\ LET tok == ev.text[PosRhs]
           r == Eval(ArgOf(tok), env)
       IN  /\ env' = r.env
           /\ ev' = [ev EXCEPT !.rhs = <<r.val>>,
                               !.log = Append(@, [arg |-> tok, val |-> r.val])]

\* The comparison is made and the branch it selects is evaluated; its
\* value is the value of the whole expression.
Select ==
    /\ ev.pc = "cmp" /\ ev.lhs # <<>> /\ ev.rhs # <<>>
    /\ LET tok == IF Compare(ev.text[PosCmp], ev.lhs[1], ev.rhs[1])
                  THEN ev.text[PosThen]
                  ELSE ev.text[PosElse]
           r == Eval(ArgOf(tok), env)
       IN  /\ env' = r.env
           /\ ev' = [ev EXCEPT !.pc = "done",
                               !.result = <<r.val>>,
                               !.log = Append(@, [arg |-> tok, val |-> r.val])]

InitMac ==
    /\ \E pre \in SUBSET {"max", "min"} : InitIncluded(pre)
    /\ env = [i |-> 0, j |-> 0]
    /\ ev = NoEval
    /\ InitExp /\ InitMemFixed /\ InitGdiFixed

NextMac ==
    \/ \E op \in {"max", "min"}, a \in ExprsOver("i"), b \in ExprsOver("j"),
          i0 \in Vals, j0 \in Vals :
          StartUse(op, a, b, i0, j0) /\ UNCHANGED <<tuVars, expVars, memVars, gdiVars>>
    \/ EvalLhs /\ UNCHANGED <<tuVars, expVars, memVars, gdiVars>>
    \/ EvalRhs /\ UNCHANGED <<tuVars, expVars, memVars, gdiVars>>
    \/ Select /\ UNCHANGED <<tuVars, expVars, memVars, gdiVars>>

SpecMac == InitMac /\ [][NextMac]_vars

\* The value of a side-effect-free expression in the current environment.
PureValue(e) == IF e.kind = "const" THEN e.v ELSE env[e.v]

\* C2: with side-effect-free arguments max(a,b) is the larger and min(a,b)
\* the smaller of the two values: one of them, and not below (not above)
\* either; with equal values it is the shared value.
C2_MinMaxExtremum ==
    (ev.pc = "done" /\ Pure(ev.a) /\ Pure(ev.b)) =>
        LET va == PureValue(ev.a)
            vb == PureValue(ev.b)
            r == ev.result[1]
        IN  /\ r \in {va, vb}
            /\ ev.op = "max" => (r >= va /\ r >= vb)
            /\ ev.op = "min" => (r <= va /\ r <= vb)
            /\ va = vb => r = va

\* max(i, 0) has been evaluated with i = -1 and has yielded 0.
C2_Witness ==
    /\ ev.pc = "done" /\ ev.op = "max"
    /\ ev.a = [kind |-> "var", v |-> "i"] /\ ev.b = Const(0)
    /\ env.i = -1
    /\ ev.result = <<0>>

\* The number of evaluations of argument tok recorded in the log.
Evaluations(tok) == Cardinality({k \in 1..Len(ev.log) : ev.log[k].arg = tok})

\* C10: a use of max or min evaluates both arguments once for the
\* comparison and then the argument the comparison selects once more: the
\* selected one twice, the other once, and the value of the use is that of
\* the selected argument's second evaluation.
C10_SelectedEvaluatedTwice ==
    ev.pc = "done" =>
        LET first == IF ev.op = "max" THEN ev.lhs[1] > ev.rhs[1]
                                      ELSE ev.lhs[1] < ev.rhs[1]
            sel == IF first THEN "$1" ELSE "$2"
            oth == IF first THEN "$2" ELSE "$1"
        IN  /\ Len(ev.log) = 3
            /\ {ev.log[1].arg, ev.log[2].arg} = {"$1", "$2"}
            /\ \A k \in 1..2 :
                  ev.log[k].val = IF ev.log[k].arg = "$1" THEN ev.lhs[1] ELSE ev.rhs[1]
            /\ ev.log[3].arg = sel
            /\ Evaluations(sel) = 2 /\ Evaluations(oth) = 1
            /\ ev.result = <<ev.log[3].val>>

\* max(i++, 0) with i = 1 has compared 1 with 0 and has yielded 2, which is
\* not the larger of the values compared.
C10_Witness ==
    /\ ev.pc = "done" /\ ev.op = "max"
    /\ ev.a = [kind |-> "postinc", v |-> "i"] /\ ev.b = Const(0)
    /\ ev.lhs = <<1>> /\ ev.rhs = <<0>>
    /\ ev.result = <<2>>
    /\ env.i = 3

=============================================================================
